---------------------------- MODULE Spec2Model ----------------------------
(***************************************************************************)
(* Model of the Biologic CAM binary converter: the filename helpers of     *)
(* cam_biologic_data_import.py, the feature extraction of features.py and  *)
(* extract_electrochemical_features.py, and the batch script main.py.      *)
(*                                                                         *)
(* Strings are sequences of tokens.  Each token stands for a fixed piece   *)
(* of text; the tokens are chosen so that every pattern the code searches  *)
(* for ('OCV', 'Life', 'Formation', 'Formation-Capacity-Check', '_',       *)
(* 'CC-<digit>', '-CC', '.') can only occur aligned on token boundaries.   *)
(*                                                                         *)
(* Numbers are fixed point integers; every definition states its unit.     *)
(* NaN and the infinities of numpy's float64 are the strings "nan", "inf"  *)
(* and "-inf".                                                             *)
(***************************************************************************)
EXTENDS Integers, Sequences, FiniteSets, TLC

VARIABLES
    \* ---- filename helpers on their own (SpecName)
    nm_file,          \* the filename a helper is applied to
    nm_op,            \* which helper ran last ("none" before any)
    nm_out,           \* what it returned or raised
    \* ---- feature extraction on its own (SpecFeat)
    ft_df,            \* the cloud format record
    ft_mass,          \* the mass handed to the capacity steps
    ft_features,      \* the features dictionary handed from step to step
    ft_op,            \* which extraction step ran last
    ft_raised,        \* TRUE when that step raised
    \* ---- the batch script main.py (Spec)
    pc,               \* position in main.py
    selection,        \* what get_file_path returned
    mpr_file_path,    \* the list the loop iterates over
    idx,              \* number of list entries the loop has consumed
    filename,         \* module-level name `filename`: <<>> while unbound, else <<stem>>
    sample_ID,        \* module-level name `sample_ID`: unbound, None or a string
    qc_sample_summary,        \* rows of the summary table
    cycle_life_sample_data,   \* rows of the cycle-life detail table
    sample_ID_list,
    summary_file,     \* the summary workbook written (NoFile before)
    detail_file,      \* the detail workbook written (NoFile before)
    abort_cause,      \* why the run was aborted ("none" while it is not)
    \* ---- history of the run, read only by the properties
    h_visited,        \* per list entry: what happened to it
    h_qc_origin,      \* per summary row: the list position of the file that produced it
    h_cl_origin,      \* per detail row: the list position of the file that produced it
    h_id_origin       \* per entry of sample_ID_list: the list position of its file

name_vars == <<nm_file, nm_op, nm_out>>
feat_vars == <<ft_df, ft_mass, ft_features, ft_op, ft_raised>>
main_vars == <<pc, selection, mpr_file_path, idx, filename, sample_ID,
               qc_sample_summary, cycle_life_sample_data, sample_ID_list,
               summary_file, detail_file, abort_cause,
               h_visited, h_qc_origin, h_cl_origin, h_id_origin>>
vars == <<name_vars, feat_vars, main_vars>>

-----------------------------------------------------------------------------
(* Bounds *)

MaxNameLen == 4      \* longest filename (in tokens) the helpers are applied to
MaxFiles == 2        \* most files selected in one run
MaxRows == 2         \* most rows of a record handed to an extraction step

-----------------------------------------------------------------------------
(* Strings *)

Digits == {"1", "2"}
Tokens == {"QCL", "-", "CC", "1", "2", ".", "_", "OCV", "Life", "Formation",
           "-Capacity-Check"}

DigitVal(t) == IF t = "1" THEN 1 ELSE 2

\* An optional value: None, an unbound name or a raised error is <<>>, a value v
\* is <<v>>.
None == <<>>
Some(v) == <<v>>

\* s[i..] starts with the token sequence pat
MatchAt(s, i, pat) ==
    /\ i >= 1
    /\ i + Len(pat) - 1 <= Len(s)
    /\ \A k \in 1..Len(pat) : s[i + k - 1] = pat[k]

\* Python's  pat in s
Contains(s, pat) == \E i \in 1..Len(s) : MatchAt(s, i, pat)

RECURSIVE Pow10(_)
Pow10(k) == IF k = 0 THEN 1 ELSE 10 * Pow10(k - 1)

\* str.split(sep) for a one-token separator: the pieces between separators
RECURSIVE SplitFrom(_, _, _, _)
SplitFrom(s, sep, i, cur) ==
    IF i > Len(s) THEN <<cur>>
    ELSE IF s[i] = sep THEN <<cur>> \o SplitFrom(s, sep, i + 1, <<>>)
    ELSE SplitFrom(s, sep, i + 1, Append(cur, s[i]))

Split(s, sep) == SplitFrom(s, sep, 1, <<>>)

RECURSIVE DigitsValue(_)
DigitsValue(s) ==
    IF s = <<>> THEN 0
    ELSE 10 * DigitsValue(SubSeq(s, 1, Len(s) - 1)) + DigitVal(s[Len(s)])

\* Python's float(text).  The result is [ok, num, den] with value num/den, den a
\* power of ten; ok = FALSE stands for ValueError.  The text has no blanks, no
\* exponent and no '+', so the accepted shapes are [-]digits[.digits] and
\* [-].digits (at least one digit in all).
ParseFloat(s) ==
    LET neg == Len(s) >= 1 /\ s[1] = "-"
        body == IF neg THEN SubSeq(s, 2, Len(s)) ELSE s
        dots == {i \in 1..Len(body) : body[i] = "."}
        wellformed ==
            /\ Len(body) >= 1
            /\ \A i \in 1..Len(body) : body[i] \in Digits \cup {"."}
            /\ Cardinality(dots) <= 1
            /\ \E i \in 1..Len(body) : body[i] \in Digits
        dot == IF dots = {} THEN Len(body) + 1 ELSE CHOOSE i \in dots : TRUE
        ip == SubSeq(body, 1, dot - 1)
        fp == SubSeq(body, dot + 1, Len(body))
        mag == DigitsValue(ip) * Pow10(Len(fp)) + DigitsValue(fp)
    IN  IF wellformed
        THEN [ok |-> TRUE, num |-> IF neg THEN -mag ELSE mag, den |-> Pow10(Len(fp))]
        ELSE [ok |-> FALSE, num |-> 0, den |-> 1]

-----------------------------------------------------------------------------
(* cam_biologic_data_import.py *)

\* What the prompt of get_protocol_type can give back: one of the three codes,
\* any other text the user types, or EOFError when no input is available.
PromptReplies == {"F", "FC", "CL", "other", "EOF"}

\* get_protocol_type(filename), with `reply` what input() would give.
\* kind = "exit": sys.exit(1), a SystemExit that `except Exception` does not
\* catch; "return": val is returned; "raise": an Exception logged and re-raised.
\* prompted tells whether input() was called.
Classified(kind, val, prompted) == [kind |-> kind, val |-> val, prompted |-> prompted]

Prompt(reply) ==
    IF reply = "EOF" THEN Classified("raise", "", TRUE)
    ELSE Classified("return", reply, TRUE)

get_protocol_type_FormationFirst(fn, reply) ==
    IF Contains(fn, <<"OCV">>) THEN Classified("exit", "", FALSE)
    ELSE IF Contains(fn, <<"Life">>) THEN Classified("return", "CL", FALSE)
    ELSE IF Contains(fn, <<"Formation">>) THEN Classified("return", "F", FALSE)
    ELSE IF Contains(fn, <<"Formation", "-Capacity-Check">>)
        THEN Classified("return", "FC", FALSE)
    ELSE Prompt(reply)

get_protocol_type(fn, reply) ==
    IF Contains(fn, <<"OCV">>) THEN Classified("exit", "", FALSE)
    ELSE IF Contains(fn, <<"Life">>) THEN Classified("return", "CL", FALSE)
    ELSE IF Contains(fn, <<"Formation", "-Capacity-Check">>)
        THEN Classified("return", "FC", FALSE)
    ELSE IF Contains(fn, <<"Formation">>) THEN Classified("return", "F", FALSE)
    ELSE Prompt(reply)

\* The mass a filename yields when none can be read from it (1.0).
DefaultMass == [num |-> 1, den |-> 1]

\* extract_mass_from_filename(filename): float(filename.split('_')[1]); the bare
\* except turns IndexError and ValueError into 1.0.  The mass is num/den grams.
extract_mass_RaisesOnBadToken(fn) ==
    LET parts == Split(fn, "_")
    IN  IF Len(parts) < 2 THEN Some(DefaultMass)
        ELSE LET f == ParseFloat(parts[2])
             IN  IF f.ok THEN Some([num |-> f.num, den |-> f.den]) ELSE None

extract_mass_from_filename(fn) ==
    LET parts == Split(fn, "_")
    IN  IF Len(parts) < 2 THEN Some(DefaultMass)
        ELSE LET f == ParseFloat(parts[2])
             IN  IF f.ok THEN Some([num |-> f.num, den |-> f.den])
                 ELSE Some(DefaultMass)

\* Where 'CC-' followed by a digit occurs in s.
CCDigitAt(s) == {i \in 1..Len(s) : MatchAt(s, i, <<"CC", "-">>)
                                   /\ i + 2 <= Len(s) /\ s[i + 2] \in Digits}

Min(S) == CHOOSE x \in S : \A y \in S : x <= y
Max(S) == CHOOSE x \in S : \A y \in S : x >= y

\* process_filenames_CC(filename) for a single filename:
\* re.match(r'^(.*?)(CC-\d{1,2})', filename), match[0] or None.  The lazy prefix
\* stops at the first 'CC-<digit>'; \d{1,2} is greedy and takes a second digit
\* when there is one.
process_filenames_CC(fn) ==
    IF CCDigitAt(fn) = {} THEN None
    ELSE LET i == Min(CCDigitAt(fn))
             two == i + 3 <= Len(fn) /\ fn[i + 3] \in Digits
         IN  Some(SubSeq(fn, 1, IF two THEN i + 3 ELSE i + 2))

\* re.compile(r'(.*?)-CC').findall(filename): the list of the lazy groups, the
\* first of which is everything before the first '-CC'.  Only element [0] is
\* used, so the model keeps at most that one.
FindallBeforeCC(fn) ==
    LET at == {i \in 1..Len(fn) : MatchAt(fn, i, <<"-", "CC">>)}
    IN  IF at = {} THEN <<>> ELSE <<SubSeq(fn, 1, Min(at) - 1)>>

\* Path(path).stem: the name without its last suffix; a name that starts or ends
\* with its only dot has no suffix.  Directories are left out of the model: the
\* paths are the file names.
Stem(path) ==
    LET dots == {i \in 1..Len(path) : path[i] = "."}
    IN  IF dots = {} THEN path
        ELSE LET i == Max(dots)
             IN  IF i > 1 /\ i < Len(path) THEN SubSeq(path, 1, i - 1) ELSE path

\* filter_OCV_files(input_filenames).  sel.kind is "str", "list" or "none" (the
\* dialog was cancelled); the result is [raised, single, val]: raised for the
\* TypeError, single with val an optional path, or val the filtered list.
NoOCV(p) == ~Contains(p, <<"OCV">>)

\* [f for f in input_filenames if 'OCV' not in f]
NoOCVFiles(s) ==
    LET F[i \in 0..Len(s)] ==
            IF i = 0 THEN <<>>
            ELSE IF NoOCV(s[i]) THEN Append(F[i - 1], s[i]) ELSE F[i - 1]
    IN  F[Len(s)]

filter_OCV_files(sel) ==
    IF sel.kind = "str"
    THEN [raised |-> FALSE, single |-> TRUE,
          val |-> IF NoOCV(sel.paths[1]) THEN <<Some(sel.paths[1])>> ELSE <<None>>]
    ELSE IF sel.kind = "list"
    THEN [raised |-> FALSE, single |-> FALSE,
          val |-> LET kept == NoOCVFiles(sel.paths)
                  IN  [i \in 1..Len(kept) |-> Some(kept[i])]]
    ELSE [raised |-> TRUE, single |-> FALSE, val |-> <<>>]

-----------------------------------------------------------------------------
(* Values the variables of a part hold while another part is being run *)

NameIdle == nm_file = <<>> /\ nm_op = "idle" /\ nm_out = <<>>
FeatIdle ==
    /\ ft_df = <<>> /\ ft_mass = <<>> /\ ft_features = <<>>
    /\ ft_op = "idle" /\ ft_raised = FALSE
MainIdle ==
    /\ pc = "idle" /\ selection = <<>> /\ mpr_file_path = <<>> /\ idx = 0
    /\ filename = None /\ sample_ID = <<>>
    /\ qc_sample_summary = <<>> /\ cycle_life_sample_data = <<>>
    /\ sample_ID_list = <<>> /\ summary_file = None /\ detail_file = None
    /\ abort_cause = "none"
    /\ h_visited = <<>> /\ h_qc_origin = <<>> /\ h_cl_origin = <<>>
    /\ h_id_origin = <<>>

-----------------------------------------------------------------------------
(* SpecName: the filename helpers applied to every filename of at most        *)
(* MaxNameLen tokens                                                          *)

Filenames == UNION {[1..n -> Tokens] : n \in 0..MaxNameLen}

NameInit ==
    /\ nm_file \in Filenames
    /\ nm_op = "none"
    /\ nm_out = <<>>
    /\ FeatIdle /\ MainIdle

CallGetProtocolType ==
    \E reply \in PromptReplies :
        /\ nm_op = "none"
        /\ nm_op' = "get_protocol_type"
        /\ nm_out' = [get_protocol_type(nm_file, reply) EXCEPT !.val = <<@, reply>>]
        /\ UNCHANGED <<nm_file, feat_vars, main_vars>>

CallExtractMass ==
    /\ nm_op = "none"
    /\ nm_op' = "extract_mass_from_filename"
    /\ nm_out' = extract_mass_from_filename(nm_file)
    /\ UNCHANGED <<nm_file, feat_vars, main_vars>>

CallProcessFilenamesCC ==
    /\ nm_op = "none"
    /\ nm_op' = "process_filenames_CC"
    /\ nm_out' = process_filenames_CC(nm_file)
    /\ UNCHANGED <<nm_file, feat_vars, main_vars>>

NameNext == CallGetProtocolType \/ CallExtractMass \/ CallProcessFilenamesCC

SpecName == NameInit /\ [][NameNext]_vars

\* The filename carries the text of token t
Has(t) == \E i \in 1..Len(nm_file) : nm_file[i] = t
HasFC == \E i \in 1..(Len(nm_file) - 1) :
            nm_file[i] = "Formation" /\ nm_file[i + 1] = "-Capacity-Check"

\* C7: get_protocol_type checks the markers in a fixed priority order: 'OCV'
\* rejects first; otherwise 'Life' yields CL; otherwise
\* 'Formation-Capacity-Check' yields FC; otherwise 'Formation' yields F; the
\* prompt is used only when none is present, and then its reply is the result.
\* A filename with 'Formation-Capacity-Check' and neither 'OCV' nor 'Life' is FC.
C7_PriorityOrder ==
    nm_op = "get_protocol_type" =>
        LET kind == nm_out.kind
            code == nm_out.val[1]
            reply == nm_out.val[2]
        IN  /\ Has("OCV") => kind = "exit" /\ ~nm_out.prompted
            /\ ~Has("OCV") /\ Has("Life") =>
                    kind = "return" /\ code = "CL" /\ ~nm_out.prompted
            /\ ~Has("OCV") /\ ~Has("Life") /\ HasFC =>
                    kind = "return" /\ code = "FC" /\ ~nm_out.prompted
            /\ ~Has("OCV") /\ ~Has("Life") /\ ~HasFC /\ Has("Formation") =>
                    kind = "return" /\ code = "F" /\ ~nm_out.prompted
            /\ nm_out.prompted <=>
                    ~(Has("OCV") \/ Has("Life") \/ Has("Formation"))
            /\ nm_out.prompted =>
                    IF reply = "EOF" THEN kind = "raise"
                    ELSE kind = "return" /\ code = reply

C7_Witness ==
    /\ nm_op = "get_protocol_type"
    /\ HasFC /\ ~Has("OCV") /\ ~Has("Life")
    /\ nm_file[1] = "QCL"
    /\ nm_out.kind = "return" /\ nm_out.val[1] = "FC"

\* The text between the first '_' and the next one (or the end); <<>> with
\* present = FALSE when the filename has no '_'.
MassToken ==
    LET us == {i \in 1..Len(nm_file) : nm_file[i] = "_"}
    IN  IF us = {} THEN [present |-> FALSE, text |-> <<>>]
        ELSE LET a == Min(us)
                 later == {i \in us : i > a}
                 b == IF later = {} THEN Len(nm_file) + 1 ELSE Min(later)
             IN  [present |-> TRUE, text |-> SubSeq(nm_file, a + 1, b - 1)]

\* C9: extract_mass_from_filename never raises: when the token after the first
\* '_' is absent or is not a number it returns 1.0, otherwise the parsed value.
C9_MassNeverRaises ==
    nm_op = "extract_mass_from_filename" =>
        /\ nm_out # None
        /\ LET t == MassToken
                f == ParseFloat(t.text)
            IN  IF t.present /\ f.ok
                THEN nm_out[1].num = f.num /\ nm_out[1].den = f.den
                ELSE nm_out[1].num = 1 /\ nm_out[1].den = 1

C9_Witness ==
    /\ nm_op = "extract_mass_from_filename"
    /\ MassToken.present /\ MassToken.text # <<>>
    /\ ~ParseFloat(MassToken.text).ok
    /\ nm_out = Some(DefaultMass)

-----------------------------------------------------------------------------
(* features.py: numbers *)

\* A float64: a finite number n (in the unit its place states), NaN or an
\* infinity.
Num(n) == [k |-> "num", v |-> n]
NaN == [k |-> "nan", v |-> 0]
Inf(sign) == [k |-> "inf", v |-> sign]
IsNum(x) == x.k = "num"

\* p/q (q > 0) rounded to the nearest integer, ties to the even one, as
\* round(x, ndigits) of a float64 does on the scaled value.
RoundDiv(p, q) ==
    LET f == p \div q
        r == p - f * q
    IN  IF 2 * r < q THEN f
        ELSE IF 2 * r > q THEN f + 1
        ELSE IF f % 2 = 0 THEN f ELSE f + 1

\* round(p/q) for float64 operands: division by zero gives an infinity or NaN
\* (numpy warns, it does not raise).
RatioRound(p, q) ==
    IF q = 0 THEN (IF p = 0 THEN NaN ELSE IF p > 0 THEN Inf(1) ELSE Inf(-1))
    ELSE IF q > 0 THEN Num(RoundDiv(p, q))
    ELSE Num(RoundDiv(-p, -q))

\* Series.max(): NaN for an empty selection.
SeriesMax(S) == IF S = {} THEN NaN ELSE Num(Max(S))

-----------------------------------------------------------------------------
(* features.py: the record and the features dictionary *)

\* A row of the cloud format record.  voltage is in 1e-4 V, step_amp_hours in
\* 1e-7 A.h (1e-4 mAh).
Row(st, sn, c, v, ah) ==
    [step_type |-> st, step_number |-> sn, cycle |-> c, voltage |-> v,
     step_amp_hours |-> ah]

\* A features dictionary is a function from keys to float64 values; a key is
\* <<text, n>> with n the cycle number the text embeds (0 when it embeds none).
KeyOCV == <<"Open Circuit Potential (V)", 0>>
KeyCharge == <<"Initial Charge Capacity (mAh)", 0>>
KeySpecCharge == <<"Initial Specific Charge Capacity (mAh/g) ", 0>>
KeyDischarge == <<"Initial Discharge Capacity (mAh)", 0>>
KeySpecDischarge == <<"Initial Specific Discharge capacity (mAh/g)", 0>>
KeyCE == <<"Initial Coulombic Efficiency (%)", 0>>
KeyRetention(n) == <<"Retention Cycle n (%)", n>>
KeyDifference(n) == <<"Retention Difference for n (%)", n>>

EmptyDict == <<>>
SetKey(d, key, val) == (key :> val) @@ d

\* What an extraction step gives back: the dictionary, or raised = TRUE when it
\* raised (the dictionary is then as the step left it).
Returned(d) == [raised |-> FALSE, features |-> d]
Raised(d) == [raised |-> TRUE, features |-> d]

Rows(df) == {df[1][i] : i \in 1..Len(df[1])}

\* Features.extract_ocv(df, features).  df is an optional record: None (the
\* reader failed) is not subscriptable.  np.logical_and takes its third
\* positional argument as `out`, so the selection is step_type == REST and
\* step_number == 0; the comparison with cycle 1 only provides the buffer the
\* result is written to.  .iloc[-1] of an empty selection raises IndexError.
\* The stored value is in 1e-3 V.
OCVSelection(rows) ==
    {i \in 1..Len(rows) : rows[i].step_type = "REST" /\ rows[i].step_number = 0}

extract_ocv(df, features) ==
    IF df = None THEN Raised(features)
    ELSE LET sel == OCVSelection(df[1])
         IN  IF sel = {} THEN Raised(features)
             ELSE Returned(SetKey(features, KeyOCV,
                                  Num(RoundDiv(df[1][Max(sel)].voltage, 10))))

\* The two capacity features of a step in cycle 1: the maximum step_amp_hours
\* times 1000 rounded to 3 digits (stored in 1e-3 mAh), and divided by the mass
\* rounded to 1 digit (stored in 0.1 mAh/g).  An empty selection gives NaN for
\* both; nothing raises.
InitialCapacity(df, features, mass, step, key, speckey) ==
    IF df = None THEN Raised(features)
    ELSE LET cap == SeriesMax({r.step_amp_hours : r \in
                        {x \in Rows(df) : x.step_type = step /\ x.cycle = 1}})
             abs == IF IsNum(cap) THEN Num(RoundDiv(cap.v, 10)) ELSE NaN
             spec == IF IsNum(cap)
                     THEN RatioRound(cap.v * mass.den, mass.num * 1000)
                     ELSE NaN
         IN  Returned(SetKey(SetKey(features, key, abs), speckey, spec))

\* Features.extract_initial_charge_capacity(df, features, mass)
extract_initial_charge_capacity(df, features, mass) ==
    InitialCapacity(df, features, mass, "CHARGE", KeyCharge, KeySpecCharge)

\* Features.extract_initial_discharge_capacity(df, features, mass)
extract_initial_discharge_capacity(df, features, mass) ==
    InitialCapacity(df, features, mass, "DISCHARGE", KeyDischarge, KeySpecDischarge)

\* round((discharge / charge) * 100, 1), in 0.1 %; both capacities are in the
\* same unit.
Efficiency(dis, chg) ==
    IF ~IsNum(dis) \/ ~IsNum(chg) THEN NaN ELSE RatioRound(dis.v * 1000, chg.v)

\* As extract_initial_coulombic_efficiency, but reading the capacities with
\* features.get(...): a missing capacity is None, taken as NaN, and the key is
\* written all the same.
extract_initial_coulombic_efficiency_NoKeyError(df, features) ==
    LET dis == IF KeyDischarge \in DOMAIN features THEN features[KeyDischarge] ELSE NaN
        chg == IF KeyCharge \in DOMAIN features THEN features[KeyCharge] ELSE NaN
    IN  Returned(SetKey(features, KeyCE, Efficiency(dis, chg)))

\* Features.extract_initial_coulombic_efficiency(df, features): reads the two
\* stored capacities (KeyError when one is missing; df is not read).
extract_initial_coulombic_efficiency(df, features) ==
    IF KeyDischarge \notin DOMAIN features \/ KeyCharge \notin DOMAIN features
    THEN Raised(features)
    ELSE Returned(SetKey(features, KeyCE,
                         Efficiency(features[KeyDischarge], features[KeyCharge])))

\* The per-cycle discharge capacity both cycle functions build: the maximum
\* step_amp_hours of the DISCHARGE rows of the cycle, for cycles above 1.
DischargeCapacity(df, cycle) ==
    SeriesMax({r.step_amp_hours : r \in
                 {x \in Rows(df) : x.step_type = "DISCHARGE" /\ x.cycle = cycle
                                   /\ x.cycle > 1}})

\* round(discharge_capacity * 100 / (initial_discharge_capacity / 1000), 1), in
\* 0.1 %: the capacity is in 1e-7 A.h, the stored initial capacity in 1e-3 mAh.
Retention(cap, initial) ==
    IF ~IsNum(cap) \/ ~IsNum(initial) THEN NaN
    ELSE RatioRound(cap.v * 100, initial.v)

\* Features.extract_capacities_for_cycles(df, features, cycles): one key per
\* requested cycle, whether or not the cycle has discharge rows.
RECURSIVE RetentionLoop(_, _, _, _)
RetentionLoop(df, features, cycles, initial) ==
    IF cycles = <<>> THEN features
    ELSE RetentionLoop(df,
            SetKey(features, KeyRetention(Head(cycles)),
                   Retention(DischargeCapacity(df, Head(cycles)), initial)),
            Tail(cycles), initial)

extract_capacities_for_cycles(df, features, cycles) ==
    IF df = None THEN Raised(features)
    ELSE IF KeyDischarge \notin DOMAIN features THEN Raised(features)
    ELSE Returned(RetentionLoop(df, features, cycles, features[KeyDischarge]))

\* (discharge_capacity - prev) / (prev / 100) rounded to 3 digits, in 1e-3 %.
Difference(cap, prev) ==
    IF ~IsNum(cap) \/ ~IsNum(prev) THEN NaN
    ELSE RatioRound((cap.v - prev.v) * 100000, prev.v)

\* Features.extract_discharge_capacity_difference(df, features, cycles): the
\* reference starts as the capacity of cycle 2 and becomes the capacity of each
\* cycle once it is computed.
RECURSIVE DifferenceLoop(_, _, _, _)
DifferenceLoop(df, features, cycles, prev) ==
    IF cycles = <<>> THEN features
    ELSE LET cap == DischargeCapacity(df, Head(cycles))
         IN  DifferenceLoop(df,
                SetKey(features, KeyDifference(Head(cycles)), Difference(cap, prev)),
                Tail(cycles), cap)

\* As extract_discharge_capacity_difference, but with the reference held at
\* the capacity of cycle 2 (the update at the end of the loop body left out).
RECURSIVE DifferenceLoop_FixedReference(_, _, _, _)
DifferenceLoop_FixedReference(df, features, cycles, prev) ==
    IF cycles = <<>> THEN features
    ELSE LET cap == DischargeCapacity(df, Head(cycles))
         IN  DifferenceLoop_FixedReference(df,
                SetKey(features, KeyDifference(Head(cycles)), Difference(cap, prev)),
                Tail(cycles), prev)

extract_discharge_capacity_difference_FixedReference(df, features, cycles) ==
    IF df = None THEN Raised(features)
    ELSE Returned(DifferenceLoop_FixedReference(df, features, cycles,
                                                DischargeCapacity(df, 2)))

extract_discharge_capacity_difference(df, features, cycles) ==
    IF df = None THEN Raised(features)
    ELSE Returned(DifferenceLoop(df, features, cycles, DischargeCapacity(df, 2)))

-----------------------------------------------------------------------------
(* extract_electrochemical_features.py *)

FirstCycle == 2      \* np.arange(2, 51)
LastCycle == 50
CheckpointCycle == 50   \* np.array([50])

AllCycles == [i \in 1..(LastCycle - FirstCycle + 1) |-> FirstCycle + i - 1]

\* The two initial capacity calls that open both cycle-life policies.  In each
\* policy a step runs only if no earlier step raised.
InitialCapacities(df, mass) ==
    LET r1 == extract_initial_charge_capacity(df, EmptyDict, mass)
    IN  IF r1.raised THEN r1
        ELSE extract_initial_discharge_capacity(df, r1.features, mass)

\* extract_formation_features(filename, cloud_data_df, mass)
extract_formation_features(df, mass) ==
    LET r1 == extract_ocv(df, EmptyDict)
        r2 == IF r1.raised THEN r1
              ELSE extract_initial_charge_capacity(df, r1.features, mass)
        r3 == IF r2.raised THEN r2
              ELSE extract_initial_discharge_capacity(df, r2.features, mass)
    IN  IF r3.raised THEN r3
        ELSE extract_initial_coulombic_efficiency(df, r3.features)

\* extract_qc_cycle_life_features(filename, cloud_data_df, mass)
extract_qc_cycle_life_features(df, mass) ==
    LET r2 == InitialCapacities(df, mass)
    IN  IF r2.raised THEN r2
        ELSE extract_capacities_for_cycles(df, r2.features, <<CheckpointCycle>>)

\* As extract_all_cycle_life_features, but with the cycles of np.arange(2, 50):
\* the last cycle left out.
extract_all_cycle_life_features_LastCycleLeftOut(df, mass) ==
    LET cycles == SubSeq(AllCycles, 1, Len(AllCycles) - 1)
        r2 == InitialCapacities(df, mass)
        r3 == IF r2.raised THEN r2
              ELSE extract_capacities_for_cycles(df, r2.features, cycles)
    IN  IF r3.raised THEN r3
        ELSE extract_discharge_capacity_difference(df, r3.features, cycles)

\* extract_all_cycle_life_features(filename, cloud_data_df, mass)
extract_all_cycle_life_features(df, mass) ==
    LET r2 == InitialCapacities(df, mass)
        r3 == IF r2.raised THEN r2
              ELSE extract_capacities_for_cycles(df, r2.features, AllCycles)
    IN  IF r3.raised THEN r3
        ELSE extract_discharge_capacity_difference(df, r3.features, AllCycles)

-----------------------------------------------------------------------------
(* SpecFeat: the extraction steps applied to every record of at most MaxRows  *)
(* rows, each step called where a policy of                                   *)
(* extract_electrochemical_features.py calls it or ahead of the steps that    *)
(* policy runs before it; nothing is called after a step raised               *)

SampleCycles == {1, 2, 50}
Voltages == {30004, 35006}        \* 3.0004 V, 3.5006 V
AmpHours == {90004, 100016}       \* 9.0004 mAh, 10.0016 mAh
Masses == {DefaultMass, [num |-> 12, den |-> 10]}

\* The rows records are built from.  The steps read the voltage of REST rows
\* and the step_amp_hours of CHARGE and DISCHARGE rows only, so the fields no
\* step reads are held fixed.
RowDomain ==
    {Row("REST", sn, c, v, 0) : sn \in {0, 1}, c \in SampleCycles, v \in Voltages}
    \cup {Row("CHARGE", 1, c, 35006, ah) : c \in {1, 2}, ah \in AmpHours}
    \cup {Row("DISCHARGE", 2, c, 30004, ah) : c \in SampleCycles, ah \in AmpHours}

\* Rows come in acquisition order: the cycle number never decreases.
CyclesInOrder(rows) == \A i \in 1..(Len(rows) - 1) : rows[i].cycle <= rows[i + 1].cycle

RecordsUpTo(n) ==
    {Some(rows) : rows \in {r \in UNION {[1..k -> RowDomain] : k \in 0..n} :
                              CyclesInOrder(r)}}

\* Records of three consecutive cycles, 2, 3 and 4, one DISCHARGE row each,
\* with capacities among 10, 9 and 9.5 mAh.
DriftAmpHours == {100000, 90000, 95000}
DriftRecords ==
    {Some(<<Row("DISCHARGE", 2, 2, 30004, a), Row("DISCHARGE", 2, 3, 30004, b),
            Row("DISCHARGE", 2, 4, 30004, c)>>) : a, b, c \in DriftAmpHours}

FeatInit ==
    /\ ft_df \in RecordsUpTo(MaxRows) \cup DriftRecords
    /\ ft_mass \in Masses
    /\ ft_features = EmptyDict
    /\ ft_op = "none"
    /\ ft_raised = FALSE
    /\ NameIdle /\ MainIdle

FeatStep(op, after, res) ==
    /\ ft_op \in after
    /\ ~ft_raised
    /\ ft_op' = op
    /\ ft_raised' = res.raised
    /\ ft_features' = res.features
    /\ UNCHANGED <<ft_df, ft_mass, name_vars, main_vars>>

StepOCV ==
    FeatStep("extract_ocv", {"none"}, extract_ocv(ft_df, ft_features))

StepCharge ==
    FeatStep("extract_initial_charge_capacity", {"none", "extract_ocv"},
             extract_initial_charge_capacity(ft_df, ft_features, ft_mass))

StepDischarge ==
    FeatStep("extract_initial_discharge_capacity",
             {"none", "extract_initial_charge_capacity"},
             extract_initial_discharge_capacity(ft_df, ft_features, ft_mass))

StepEfficiency ==
    FeatStep("extract_initial_coulombic_efficiency",
             {"none", "extract_initial_charge_capacity",
              "extract_initial_discharge_capacity"},
             extract_initial_coulombic_efficiency(ft_df, ft_features))

StepCapacities ==
    \E cycles \in {<<CheckpointCycle>>, AllCycles} :
        FeatStep("extract_capacities_for_cycles",
                 {"none", "extract_initial_discharge_capacity"},
                 extract_capacities_for_cycles(ft_df, ft_features, cycles))

StepDifference ==
    FeatStep("extract_discharge_capacity_difference",
             {"none", "extract_capacities_for_cycles"},
             extract_discharge_capacity_difference(ft_df, ft_features, AllCycles))

FeatNext ==
    \/ StepOCV \/ StepCharge \/ StepDischarge
    \/ StepEfficiency \/ StepCapacities \/ StepDifference

SpecFeat == FeatInit /\ [][FeatNext]_vars

\* The rows of the record with step_type REST, step_number 0 and cycle 1
RestRowsOfCycle1 ==
    {i \in 1..Len(ft_df[1]) : /\ ft_df[1][i].step_type = "REST"
                              /\ ft_df[1][i].step_number = 0
                              /\ ft_df[1][i].cycle = 1}

\* C10: extract_ocv selects exactly the rows with step_type REST, step_number 0
\* and cycle 1 and stores the voltage of the last of them (rounded to 3 digits);
\* a REST row with step_number 0 of another cycle never determines the value.
C10_OCVFromCycle1 ==
    (ft_op = "extract_ocv" /\ ~ft_raised) =>
        /\ RestRowsOfCycle1 # {}
        /\ ft_features[KeyOCV] =
               Num(RoundDiv(ft_df[1][Max(RestRowsOfCycle1)].voltage, 10))

\* The step_amp_hours of the DISCHARGE rows of cycle n of the record
DischargeRowsOf(n) ==
    {ft_df[1][i].step_amp_hours : i \in
        {j \in 1..Len(ft_df[1]) : /\ ft_df[1][j].step_type = "DISCHARGE"
                                   /\ ft_df[1][j].cycle = n}}

\* C11: extract_capacities_for_cycles leaves 'Retention Cycle n (%)' absent for
\* every requested cycle n without DISCHARGE rows (a retention key in the
\* dictionary is the key of a cycle that has discharge rows), and writes the key
\* of every requested cycle that has them (cycle 50 is requested by both
\* policies).
C11_MissingCycleKeyAbsent ==
    (ft_op = "extract_capacities_for_cycles" /\ ~ft_raised) =>
        /\ \A n \in 2..50 :
              KeyRetention(n) \in DOMAIN ft_features => DischargeRowsOf(n) # {}
        /\ DischargeRowsOf(50) # {} => KeyRetention(50) \in DOMAIN ft_features

\* The drift of cycle c against the cycle processed before it (cycle 2 against
\* itself): (capacity[c] - baseline) / (baseline / 100) to 3 digits, in 1e-3 %;
\* NaN when either cycle has no discharge rows.
DriftAgainstPrevious(c) ==
    LET b == IF c = 2 THEN 2 ELSE c - 1
    IN  IF DischargeRowsOf(c) = {} \/ DischargeRowsOf(b) = {} THEN NaN
        ELSE LET cap == Max(DischargeRowsOf(c))
                 base == Max(DischargeRowsOf(b))
             IN  RatioRound((cap - base) * 100000, base)

TenNineNineAndAHalf ==
    Some(<<Row("DISCHARGE", 2, 2, 30004, 100000), Row("DISCHARGE", 2, 3, 30004, 90000),
           Row("DISCHARGE", 2, 4, 30004, 95000)>>)

\* C12: extract_discharge_capacity_difference processes the cycles 2..50 in
\* order with a running baseline: the drift stored for cycle 2 is taken against
\* cycle 2 itself and the drift of every later cycle against the cycle before
\* it; capacities 10, 9, 9.5 at cycles 2, 3, 4 give 0, -10 and 5.556.
C12_RunningBaseline ==
    (ft_op = "extract_discharge_capacity_difference" /\ ~ft_raised) =>
        /\ \A c \in 2..50 :
              /\ KeyDifference(c) \in DOMAIN ft_features
              /\ ft_features[KeyDifference(c)] = DriftAgainstPrevious(c)
        /\ ft_df = TenNineNineAndAHalf =>
              /\ ft_features[KeyDifference(2)] = Num(0)
              /\ ft_features[KeyDifference(3)] = Num(-10000)
              /\ ft_features[KeyDifference(4)] = Num(5556)

C12_Witness ==
    /\ ft_op = "extract_discharge_capacity_difference" /\ ~ft_raised
    /\ ft_df = TenNineNineAndAHalf
    /\ ft_features[KeyDifference(4)] = Num(5556)

\* C13: extract_initial_coulombic_efficiency called on a dictionary that lacks
\* an initial capacity key fails and leaves the dictionary as it was; called
\* with both keys it adds the efficiency key alone, holding 100 * discharge /
\* charge of the two stored values (to the 1 digit the value is stored with;
\* NaN when a stored capacity is NaN).
C13_EfficiencyOrdering ==
    [][(ft_op' = "extract_initial_coulombic_efficiency" /\ ft_op' # ft_op) =>
          IF KeyCharge \in DOMAIN ft_features /\ KeyDischarge \in DOMAIN ft_features
          THEN /\ ~ft_raised'
               /\ DOMAIN ft_features' = DOMAIN ft_features \cup {KeyCE}
               /\ \A key \in DOMAIN ft_features \ {KeyCE} :
                      ft_features'[key] = ft_features[key]
               /\ LET dis == ft_features[KeyDischarge]
                      chg == ft_features[KeyCharge]
                  IN  ft_features'[KeyCE] =
                          IF dis.k = "num" /\ chg.k = "num"
                          THEN RatioRound(100 * dis.v * 10, chg.v)
                          ELSE NaN
          ELSE /\ ft_raised'
               /\ ft_features' = ft_features
               /\ KeyCE \notin DOMAIN ft_features']_vars

C13_Witness ==
    /\ ft_op = "extract_initial_coulombic_efficiency" /\ ft_raised
    /\ KeyCharge \in DOMAIN ft_features
    /\ KeyDischarge \notin DOMAIN ft_features
    /\ KeyCE \notin DOMAIN ft_features

-----------------------------------------------------------------------------
(* main.py *)

\* The files a run can select among: the stems below with the suffix '.mpr'.
FormationStem == <<"QCL", "-", "CC", "-", "1", "_", "1", ".", "2", "_", "Formation">>
CapacityCheckStem == <<"QCL", "-", "CC", "-", "2", "_", "Formation", "-Capacity-Check">>
CycleLifeStem == <<"QCL", "-", "CC", "-", "1", "2", "_", "2", "_", "Life">>
NoIdentityStem == <<"QCL", "_", "Formation">>
NoMarkerStem == <<"QCL", "-", "CC", "_", "1">>
OCVStem == <<"QCL", "-", "CC", "-", "1", "_", "OCV">>

FileStems == {FormationStem, CapacityCheckStem, CycleLifeStem, NoIdentityStem,
              NoMarkerStem, OCVStem}
Paths == {stem \o <<".", "mpr">> : stem \in FileStems}

\* What the reader can make of a file: nothing (convert_file_to_cloud caught
\* the reader's error and returned None), a record with every step, one without
\* CHARGE rows, one without REST rows.
FullRecord ==
    <<Row("REST", 0, 1, 30004, 0), Row("CHARGE", 1, 1, 35006, 100016),
      Row("DISCHARGE", 2, 1, 30004, 90004), Row("DISCHARGE", 2, 2, 30004, 90004),
      Row("DISCHARGE", 2, 50, 30004, 90004)>>
NoChargeRecord ==
    <<Row("REST", 0, 1, 30004, 0), Row("DISCHARGE", 2, 1, 30004, 90004)>>
NoRestRecord ==
    <<Row("CHARGE", 1, 1, 35006, 100016), Row("DISCHARGE", 2, 1, 30004, 90004)>>

\* convert_file_to_cloud(path): the outcomes of the reader on a file
convert_file_to_cloud == {None, Some(FullRecord), Some(NoChargeRecord), Some(NoRestRecord)}

\* The name sample_ID: not yet assigned, None, or a string.
SidUnbound == [state |-> "unbound", val |-> <<>>]
SidNone == [state |-> "none", val |-> <<>>]
SidStr(v) == [state |-> "str", val |-> v]

\* One pass of the loop body (main.py 49-97) on list entry `entry`, with `df`
\* what the reader returns and `reply` what the prompt would.  stage names the
\* statement that raised ("done" when none did); the other fields are the
\* names the pass assigned and the rows and the ID it appended before it
\* ended.  handler_raised: the except clause itself raised NameError, reading
\* `filename` while it is unbound; exited: SystemExit passed the except clause.
Pass(stage, fn, sid, qc, cl, ids) ==
    [stage |-> stage, filename |-> fn, sample_ID |-> sid,
     qc_rows |-> qc, cl_rows |-> cl, ids |-> ids,
     handler_raised |-> (stage # "done" /\ stage # "exit" /\ fn = None),
     exited |-> (stage = "exit")]

Dispatch(fn, sid, df, mass, protocol) ==
    IF protocol \in {"F", "FC"}
    THEN LET f == extract_formation_features(df, mass)
         IN  IF f.raised THEN Pass("extraction", fn, sid, <<>>, <<>>, <<>>)
             ELSE Pass("done", fn, sid, <<f.features>>, <<>>, <<sid.val>>)
    ELSE IF protocol = "CL"
    THEN LET q == extract_qc_cycle_life_features(df, mass)
             a == extract_all_cycle_life_features(df, mass)
         IN  IF q.raised THEN Pass("extraction", fn, sid, <<>>, <<>>, <<>>)
             ELSE IF a.raised
             THEN Pass("extraction", fn, sid, <<q.features>>, <<>>, <<>>)
             ELSE Pass("done", fn, sid, <<q.features>>, <<a.features>>, <<sid.val>>)
    ELSE Pass("done", fn, sid, <<>>, <<>>, <<sid.val>>)

\* extract_mass_from_filename has no raising path; the "mass" stage is where
\* the pass would end if it had one.
Classify(fn, sid, df, reply) ==
    LET mass == extract_mass_from_filename(fn[1])
        protocol == get_protocol_type(fn[1], reply)
    IN  IF mass = None THEN Pass("mass", fn, sid, <<>>, <<>>, <<>>)
        ELSE IF protocol.kind = "exit" THEN Pass("exit", fn, sid, <<>>, <<>>, <<>>)
        ELSE IF protocol.kind = "raise"
        THEN Pass("classification", fn, sid, <<>>, <<>>, <<>>)
        ELSE Dispatch(fn, sid, df, mass[1], protocol.val)

LoopBody_FallbackFirst(entry, old_filename, old_sample_ID, df, reply) ==
    IF entry = None
    THEN Pass("path", old_filename, old_sample_ID, <<>>, <<>>, <<>>)
    ELSE LET fn == Some(Stem(entry[1]))
             primary == process_filenames_CC(fn[1])
             fallback == FindallBeforeCC(fn[1])
         IN  IF fallback # <<>> THEN Classify(fn, SidStr(fallback[1]), df, reply)
             ELSE IF primary # None THEN Classify(fn, SidStr(primary[1]), df, reply)
             ELSE Pass("identity", fn, SidNone, <<>>, <<>>, <<>>)

\* As LoopBody, but with the name sample_ID assigned only by a pass that ran to
\* its end: a pass that fails leaves the value of the pass before it.
LoopBody_IDKeptOnFailure(entry, old_filename, old_sample_ID, df, reply) ==
    IF entry = None
    THEN Pass("path", old_filename, old_sample_ID, <<>>, <<>>, <<>>)
    ELSE LET fn == Some(Stem(entry[1]))
             primary == process_filenames_CC(fn[1])
             fallback == FindallBeforeCC(fn[1])
             r == IF primary # None THEN Classify(fn, SidStr(primary[1]), df, reply)
                  ELSE IF fallback = <<>>
                  THEN Pass("identity", fn, SidNone, <<>>, <<>>, <<>>)
                  ELSE Classify(fn, SidStr(fallback[1]), df, reply)
         IN  IF r.stage = "done" THEN r ELSE [r EXCEPT !.sample_ID = old_sample_ID]

LoopBody(entry, old_filename, old_sample_ID, df, reply) ==
    IF entry = None
    THEN Pass("path", old_filename, old_sample_ID, <<>>, <<>>, <<>>)
    ELSE LET fn == Some(Stem(entry[1]))
             primary == process_filenames_CC(fn[1])
             fallback == FindallBeforeCC(fn[1])
         IN  IF primary # None THEN Classify(fn, SidStr(primary[1]), df, reply)
             ELSE IF fallback = <<>>
             THEN Pass("identity", fn, SidNone, <<>>, <<>>, <<>>)
             ELSE Classify(fn, SidStr(fallback[1]), df, reply)

\* Text of a column name: does it contain the word?  The feature names are
\* fixed, so containment is read off the names.
InitialKeys == {KeyCharge, KeySpecCharge, KeyDischarge, KeySpecDischarge, KeyCE}
ColumnHas(key, word) ==
    IF word = "Initial" THEN key \in InitialKeys
    ELSE IF word = "Cycle" THEN key[1] = "Retention Cycle n (%)"
    ELSE IF word = "Difference" THEN key[1] = "Retention Difference for n (%)"
    ELSE FALSE

\* The columns of a table built by appending one-row frames: the union of the
\* rows' keys.
Columns(rows) == UNION {DOMAIN rows[i] : i \in 1..Len(rows)}

\* df.insert(0, 'Sample IDs', values) and df['Sample IDs'] = values on a table
\* of appended rows.  A frame without rows takes its index from a non-empty
\* list (it becomes len(values) rows holding only the IDs); a frame with rows
\* raises ValueError unless the lengths agree.
NoRowFeatures(n) == [i \in 1..n |-> EmptyDict]
WithSampleIDs(rows, values) ==
    IF Len(rows) = 0
    THEN [raised |-> FALSE, ids |-> values, rows |-> NoRowFeatures(Len(values))]
    ELSE IF Len(rows) # Len(values)
    THEN [raised |-> TRUE, ids |-> <<>>, rows |-> rows]
    ELSE [raised |-> FALSE, ids |-> values, rows |-> rows]

\* DataFrame.empty of a table with the 'Sample IDs' column: it has a column, so
\* it is empty exactly when it has no row.
Empty(table) == Len(table.ids) = 0

\* One sheet of the detail workbook: the 'Sample IDs' column joined with the
\* columns whose name contains the word; written unless that frame is empty.
SheetEmpty(table, word) == Empty(table)
Sheet(name, table, word) ==
    IF SheetEmpty(table, word) THEN {}
    ELSE {[sheet |-> name,
           columns |-> {c \in Columns(table.rows) : ColumnHas(c, word)}]}

\* main.py 34: the file dialog returns None (cancelled), one path as a string,
\* or a list of two or more paths.
SelectFiles ==
    /\ pc = "select"
    /\ \/ selection' = [kind |-> "none", paths |-> <<>>]
       \/ \E p \in Paths : selection' = [kind |-> "str", paths |-> <<p>>]
       \/ \E n \in 2..MaxFiles : \E ps \in [1..n -> Paths] :
              selection' = [kind |-> "list", paths |-> ps]
    /\ pc' = "filter"
    /\ UNCHANGED <<mpr_file_path, idx, filename, sample_ID, qc_sample_summary,
                   cycle_life_sample_data, sample_ID_list, summary_file,
                   detail_file, abort_cause, h_visited, h_qc_origin, h_cl_origin,
                   h_id_origin, name_vars, feat_vars>>

\* main.py 37-46: filter the OCV files, wrap a single result in a list, start
\* with empty tables.  The TypeError of filter_OCV_files ends the run.
FilterFiles ==
    /\ pc = "filter"
    /\ LET f == filter_OCV_files(selection)
       IN  IF f.raised
           THEN /\ pc' = "aborted"
                /\ abort_cause' = "TypeError in filter_OCV_files"
                /\ UNCHANGED mpr_file_path
           ELSE /\ pc' = "loop"
                /\ mpr_file_path' = f.val
                /\ UNCHANGED abort_cause
    /\ UNCHANGED <<selection, idx, filename, sample_ID, qc_sample_summary,
                   cycle_life_sample_data, sample_ID_list, summary_file,
                   detail_file, h_visited, h_qc_origin, h_cl_origin, h_id_origin,
                   name_vars, feat_vars>>

RepeatOf(x, n) == [i \in 1..n |-> x]

\* main.py 48-97: one pass of the loop over the next entry of the list.
ProcessFile ==
    /\ pc = "loop"
    /\ idx < Len(mpr_file_path)
    /\ \E df \in convert_file_to_cloud : \E reply \in PromptReplies :
        LET k == idx + 1
        IN  \E r \in {LoopBody(mpr_file_path[k], filename, sample_ID, df, reply)} :
            /\ idx' = k
            /\ filename' = r.filename
            /\ sample_ID' = r.sample_ID
            /\ qc_sample_summary' = qc_sample_summary \o r.qc_rows
            /\ cycle_life_sample_data' = cycle_life_sample_data \o r.cl_rows
            /\ sample_ID_list' = sample_ID_list \o r.ids
            /\ h_qc_origin' = h_qc_origin \o RepeatOf(k, Len(r.qc_rows))
            /\ h_cl_origin' = h_cl_origin \o RepeatOf(k, Len(r.cl_rows))
            /\ h_id_origin' = h_id_origin \o RepeatOf(k, Len(r.ids))
            /\ h_visited' = Append(h_visited,
                   [stage |-> r.stage, df |-> df, sample_ID |-> r.sample_ID,
                    protocol |-> IF r.stage \in {"done", "extraction"}
                                 THEN get_protocol_type(r.filename[1], reply).val
                                 ELSE "-"])
            /\ IF r.handler_raised
               THEN pc' = "aborted" /\ abort_cause' = "NameError in the loop's except clause"
               ELSE IF r.exited
               THEN pc' = "aborted" /\ abort_cause' = "SystemExit in get_protocol_type"
               ELSE UNCHANGED <<pc, abort_cause>>
    /\ UNCHANGED <<selection, mpr_file_path, summary_file, detail_file,
                   name_vars, feat_vars>>

\* main.py 104-110: attach the IDs to the summary table and write it.  The
\* insert is outside the try; inside it, forming the file name raises NameError
\* when sample_ID is unbound and TypeError when it is None, and the error is
\* logged and raised again.
ExportSummary ==
    /\ pc = "loop"
    /\ idx = Len(mpr_file_path)
    /\ LET t == WithSampleIDs(qc_sample_summary, sample_ID_list)
       IN  IF t.raised
           THEN /\ pc' = "aborted"
                /\ abort_cause' = "ValueError attaching Sample IDs to the summary"
                /\ UNCHANGED summary_file
           ELSE IF sample_ID.state # "str"
           THEN /\ pc' = "aborted"
                /\ abort_cause' = "no sample_ID to name the summary"
                /\ UNCHANGED summary_file
           ELSE /\ pc' = "detail"
                /\ summary_file' = Some([name |-> sample_ID.val \o <<"_summary">>,
                                         ids |-> t.ids, rows |-> t.rows])
                /\ UNCHANGED abort_cause
    /\ UNCHANGED <<selection, mpr_file_path, idx, filename, sample_ID,
                   qc_sample_summary, cycle_life_sample_data, sample_ID_list,
                   detail_file, h_visited, h_qc_origin, h_cl_origin, h_id_origin,
                   name_vars, feat_vars>>

\* main.py 116-149: attach the IDs to the detail table and, unless it is
\* empty, write its three sheets.
ExportDetail ==
    /\ pc = "detail"
    /\ LET t == WithSampleIDs(cycle_life_sample_data, sample_ID_list)
       IN  IF t.raised
           THEN /\ pc' = "aborted"
                /\ abort_cause' = "ValueError attaching Sample IDs to the detail table"
                /\ UNCHANGED detail_file
           ELSE /\ pc' = "done"
                /\ UNCHANGED abort_cause
                /\ IF Empty(t) THEN UNCHANGED detail_file
                   ELSE detail_file' =
                          Some([name |-> sample_ID.val \o <<"_data">>,
                                ids |-> t.ids, rows |-> t.rows,
                                sheets |-> Sheet("Initial Results", t, "Initial")
                                    \cup Sheet("Cycle Results", t, "Cycle")
                                    \cup Sheet("Difference Results", t, "Difference")])
    /\ UNCHANGED <<selection, mpr_file_path, idx, filename, sample_ID,
                   qc_sample_summary, cycle_life_sample_data, sample_ID_list,
                   summary_file, h_visited, h_qc_origin, h_cl_origin, h_id_origin,
                   name_vars, feat_vars>>

Init ==
    /\ pc = "select"
    /\ selection = [kind |-> "none", paths |-> <<>>]
    /\ mpr_file_path = <<>>
    /\ idx = 0
    /\ filename = None
    /\ sample_ID = SidUnbound
    /\ qc_sample_summary = <<>>
    /\ cycle_life_sample_data = <<>>
    /\ sample_ID_list = <<>>
    /\ summary_file = None
    /\ detail_file = None
    /\ abort_cause = "none"
    /\ h_visited = <<>> /\ h_qc_origin = <<>> /\ h_cl_origin = <<>> /\ h_id_origin = <<>>
    /\ NameIdle /\ FeatIdle

Next == SelectFiles \/ FilterFiles \/ ProcessFile \/ ExportSummary \/ ExportDetail

Spec == Init /\ [][Next]_vars

-----------------------------------------------------------------------------
(* Properties of the batch run *)

LoopAborts == {"NameError in the loop's except clause",
               "SystemExit in get_protocol_type"}

\* The list positions whose pass appended a summary row, a detail row, an ID
Origins(h) == {h[j] : j \in 1..Len(h)}
Contributed(k) ==
    k \in Origins(h_qc_origin) \cup Origins(h_cl_origin) \cup Origins(h_id_origin)

\* C1: in the batch loop an error raised while processing file k, at any step
\* (path handling, reader, identity, classification, extraction), is caught:
\* file k is skipped, the files after it are still processed, and the run is
\* never aborted by a per-file error.
C1_PerFileErrorsIsolated ==
    /\ abort_cause \notin LoopAborts
    /\ \A k \in 1..Len(h_visited) :
          h_visited[k].stage # "done" =>
              /\ ~Contributed(k)
              /\ (idx = k /\ k < Len(mpr_file_path)) => pc = "loop"

\* C2: after the loop, whatever the files and their outcomes (failure at any
\* step, any code the classifier or its prompt returns), sample_ID_list is as
\* long as qc_sample_summary and its i-th ID belongs to the file that produced
\* the i-th row; one failing file among N leaves N-1 rows and N-1 IDs.
C2_IDsInLockstep ==
    (pc = "loop" /\ idx = Len(mpr_file_path)) =>
        /\ Len(sample_ID_list) = Len(qc_sample_summary)
        /\ h_id_origin = h_qc_origin
        /\ \A j \in 1..Len(sample_ID_list) :
              sample_ID_list[j] = h_visited[h_id_origin[j]].sample_ID.val

HasStepInCycle1(df, step) ==
    df # None /\ \E r \in Rows(df) : r.step_type = step /\ r.cycle = 1

\* C3: a file whose record lacks the rows an extraction step requires (no
\* CHARGE or no DISCHARGE rows in cycle 1) fails as a per-file failure: no row
\* of qc_sample_summary or cycle_life_sample_data comes from it, and no row
\* holds a value derived from the missing rows.
C3_NoRowFromMissingRows ==
    /\ \A j \in 1..Len(qc_sample_summary) :
          /\ HasStepInCycle1(h_visited[h_qc_origin[j]].df, "CHARGE")
          /\ HasStepInCycle1(h_visited[h_qc_origin[j]].df, "DISCHARGE")
          /\ IsNum(qc_sample_summary[j][KeyCharge])
          /\ IsNum(qc_sample_summary[j][KeyDischarge])
    /\ \A j \in 1..Len(cycle_life_sample_data) :
          /\ HasStepInCycle1(h_visited[h_cl_origin[j]].df, "CHARGE")
          /\ HasStepInCycle1(h_visited[h_cl_origin[j]].df, "DISCHARGE")
          /\ IsNum(cycle_life_sample_data[j][KeyCharge])
          /\ IsNum(cycle_life_sample_data[j][KeyDischarge])

\* The run got as far as attaching the IDs to the detail table
DetailReached ==
    pc = "done" \/ abort_cause = "ValueError attaching Sample IDs to the detail table"

\* Every pass that appended an ID appended a summary row (no file was given a
\* code other than F, FC and CL at the prompt)
EveryIDHasRow == h_id_origin = h_qc_origin

\* C4: after the loop the Sample IDs column of the cycle-life detail table
\* labels each detail row with the ID of the Cycle-Life file that produced it,
\* in insertion order, also when the batch mixes Formation and Cycle-Life files.
\* (Stated for the runs with a detail row in which every ID has its summary
\* row.)
C4_DetailRowsLabelled ==
    (DetailReached /\ EveryIDHasRow /\ h_cl_origin # <<>>) =>
        /\ pc = "done"
        /\ detail_file # None =>
              /\ Len(detail_file[1].ids) = Len(h_cl_origin)
              /\ \A j \in 1..Len(h_cl_origin) :
                    detail_file[1].ids[j] = h_visited[h_cl_origin[j]].sample_ID.val

\* C5: the detail workbook is written if and only if at least one Cycle-Life
\* file was processed successfully; a batch of Formation files only gives the
\* summary and no detail workbook.  (Stated for the runs that reach the end and
\* in which every ID has its summary row.)
C5_DetailIffCycleLife ==
    (pc = "done" /\ EveryIDHasRow) => (detail_file # None <=> h_cl_origin # <<>>)

SelectedOCV ==
    \E i \in 1..Len(selection.paths) :
        \E j \in 1..Len(selection.paths[i]) : selection.paths[i][j] = "OCV"

\* C6: a selected file whose name carries 'OCV' is a per-file skip: it gives no
\* row and no ID, the run is not aborted, and the other selected files are
\* processed, whether the selection is a list or a single file.
C6_OCVIsSkipped ==
    (SelectedOCV /\ pc # "select" /\ pc # "filter") =>
        /\ abort_cause \notin LoopAborts
        /\ \A k \in 1..Len(h_visited) :
              (mpr_file_path[k] = None \/ ~NoOCV(mpr_file_path[k][1])) => ~Contributed(k)
        /\ Cardinality({i \in 1..Len(selection.paths) : NoOCV(selection.paths[i])})
               = Cardinality({k \in 1..Len(mpr_file_path) : mpr_file_path[k] # None})

\* The first '-CC' of fn starts right after the prefix id
BeforeFirstDashCC(fn, id) ==
    /\ Len(id) + 2 <= Len(fn)
    /\ SubSeq(fn, 1, Len(id)) = id
    /\ fn[Len(id) + 1] = "-" /\ fn[Len(id) + 2] = "CC"
    /\ \A i \in 1..Len(id) : ~(fn[i] = "-" /\ fn[i + 1] = "CC")
HasDashCC(fn) == \E i \in 1..(Len(fn) - 1) : fn[i] = "-" /\ fn[i + 1] = "CC"

\* C8: the sample ID of a file is the primary pattern's match when it matches;
\* only when it does not is it everything before the first '-CC'; when neither
\* matches the file is a per-file failure: it adds no row and no ID and the
\* files after it are still processed.
C8_IdentityResolution ==
    \A k \in 1..Len(h_visited) :
        mpr_file_path[k] # None =>
            LET fn == Stem(mpr_file_path[k][1])
                v == h_visited[k]
                primary == process_filenames_CC(fn)
            IN  /\ primary # None =>
                      v.stage # "identity" /\ v.sample_ID = SidStr(primary[1])
                /\ (primary = None /\ HasDashCC(fn)) =>
                      /\ v.stage # "identity"
                      /\ v.sample_ID.state = "str"
                      /\ BeforeFirstDashCC(fn, v.sample_ID.val)
                /\ (primary = None /\ ~HasDashCC(fn)) =>
                      /\ v.stage = "identity"
                      /\ ~Contributed(k)
                      /\ (idx = k /\ k < Len(mpr_file_path)) => pc = "loop"
                /\ \A j \in 1..Len(h_id_origin) :
                      h_id_origin[j] = k => sample_ID_list[j] = v.sample_ID.val

C8_Witness ==
    /\ Len(h_visited) = 2
    /\ Stem(mpr_file_path[1][1]) = NoIdentityStem
    /\ h_visited[1].stage = "identity"
    /\ Stem(mpr_file_path[2][1]) = NoMarkerStem
    /\ h_visited[2].stage = "done"
    /\ sample_ID_list = << <<"QCL">> >>

FormationKeySet ==
    {KeyOCV, KeyCharge, KeySpecCharge, KeyDischarge, KeySpecDischarge, KeyCE}
CapacityKeySet == {KeyCharge, KeySpecCharge, KeyDischarge, KeySpecDischarge}

\* C14: the keys of a row depend only on the protocol code of its file: a row
\* of an F or FC file has OCV, the initial capacities and the coulombic
\* efficiency; a CL file gives the summary table the initial capacities and the
\* retention of cycle 50, and the detail table the initial capacities with one
\* retention key and one drift key for each cycle of 2..50; no row of a CL file
\* has OCV or the efficiency, and only CL files give detail rows.
C14_KeysByProtocol ==
    /\ \A i \in 1..Len(qc_sample_summary) :
          LET protocol == h_visited[h_qc_origin[i]].protocol
              keys == DOMAIN qc_sample_summary[i]
          IN  /\ protocol \in {"F", "FC", "CL"}
              /\ protocol \in {"F", "FC"} => keys = FormationKeySet
              /\ protocol = "CL" => keys = CapacityKeySet \cup {KeyRetention(50)}
    /\ \A i \in 1..Len(cycle_life_sample_data) :
          /\ h_visited[h_cl_origin[i]].protocol = "CL"
          /\ DOMAIN cycle_life_sample_data[i] =
                 CapacityKeySet \cup {KeyRetention(n) : n \in 2..50}
                                \cup {KeyDifference(n) : n \in 2..50}

C14_Witness ==
    /\ Len(qc_sample_summary) = 2 /\ Len(cycle_life_sample_data) = 1
    /\ h_visited[h_qc_origin[1]].protocol = "FC"
    /\ h_visited[h_qc_origin[2]].protocol = "CL"
    /\ h_cl_origin = <<2>>

\* C15: in a written detail workbook each of the three sheets is there only if
\* its column group has at least one feature column of the detail table.
C15_OnlyNonEmptySheets ==
    (detail_file # None /\ EveryIDHasRow) =>
        \A s \in detail_file[1].sheets : s.columns # {}

\* id is the sample ID the two patterns resolve from the filename fn
IsResolvedID(fn, id) ==
    LET primary == process_filenames_CC(fn)
    IN  IF primary # None THEN id = primary[1] ELSE BeforeFirstDashCC(fn, id)

\* The entries of the list the loop has been through whose identity resolution
\* ran (the reader returns None on its errors, so it runs for every real path)
Resolved == {k \in 1..Len(h_visited) : mpr_file_path[k] # None}

NamedAfterLastResolved(file, suffix) ==
    /\ Resolved # {}
    /\ LET name == file[1].name
           fn == Stem(mpr_file_path[Max(Resolved)][1])
       IN  /\ Len(name) >= 1 /\ name[Len(name)] = suffix
           /\ IsResolvedID(fn, SubSeq(name, 1, Len(name) - 1))

\* C16: the reports are named after the sample ID resolved for the last file
\* of the list whose identity resolution ran, whether or not that file went on
\* to contribute a row; when no file reached identity resolution no report is
\* written and the run aborts.
C16_ReportNamedAfterLastFile ==
    /\ summary_file # None => NamedAfterLastResolved(summary_file, "_summary")
    /\ detail_file # None => NamedAfterLastResolved(detail_file, "_data")
    /\ (pc \in {"detail", "done", "aborted"} /\ Resolved = {}) =>
          pc = "aborted" /\ summary_file = None /\ detail_file = None

\* The report is named after a file that failed after its identity was resolved:
\* the name is the ID of no row.
C16_Witness ==
    /\ summary_file # None
    /\ Len(h_visited) = 2
    /\ h_visited[2].stage = "extraction"
    /\ sample_ID_list # <<>>
    /\ \A j \in 1..Len(sample_ID_list) :
          summary_file[1].name # sample_ID_list[j] \o <<"_summary">>

=============================================================================
